---- MODULE Spec2Model ----
(***************************************************************************)
(* Fake quantization with per-tensor affine parameters:                    *)
(* aten/src/ATen/native/quantized/cuda/fake_quantize_per_tensor_affine.cu  *)
(*                                                                         *)
(* The two operator kernels (forward, backward) are stateless.  The model  *)
(* records the arguments and the outcome of the latest call and lets a     *)
(* caller issue calls: fresh ones, a requantization of the last output, a  *)
(* backward pass for the last forward pass, and the next step of a         *)
(* training run.                                                           *)
(*                                                                         *)
(* float values are modelled exactly.  A finite float is m * 2^e with      *)
(* |m| < 2^24; the record [m, e] is kept canonical (m odd, or m = e = 0),  *)
(* so that equality of records is equality of values.  Arithmetic rounds   *)
(* to nearest, ties to even, as IEEE-754 binary32 does.  Exponents are     *)
(* unbounded: the inputs drawn below stay far from overflow and underflow. *)
(* Every operation rounds on its own; a compiler may fuse the multiply and *)
(* the add of input_val * inv_scale + zero_point into one rounding, which  *)
(* yields the same rounded value on every input drawn below.               *)
(***************************************************************************)
EXTENDS Integers, Sequences, FiniteSets, TLC

\* ------------------------------------------------------------------------
\* binary32 arithmetic

Abs(n) == IF n < 0 THEN -n ELSE n

Sgn(n) == IF n < 0 THEN -1 ELSE IF n = 0 THEN 0 ELSE 1

RECURSIVE BitLen(_)
\* Number of bits of n >= 0.
BitLen(n) == IF n = 0 THEN 0 ELSE 1 + BitLen(n \div 2)

RECURSIVE Canon(_, _)
\* The canonical record of m * 2^e.
Canon(m, e) ==
    IF m = 0 THEN [m |-> 0, e |-> 0]
    ELSE IF m % 2 = 0 THEN Canon(m \div 2, e + 1)
    ELSE [m |-> m, e |-> e]

\* a >= 0 without its k >= 1 low bits, rounded to nearest, ties to even.
RoundNearestEven(a, k) ==
    LET u == 2^k
        t == a \div u
        r == a % u
    IN  IF 2 * r > u \/ (2 * r = u /\ t % 2 = 1) THEN t + 1 ELSE t

\* The float nearest to M * 2^e, |M| < 2^31 (a conversion to float).
FloatOf(M, e) ==
    LET a == Abs(M)
        L == BitLen(a)
    IN  IF L <= 24 THEN Canon(M, e)
        ELSE Canon(Sgn(M) * RoundNearestEven(a, L - 24), e + (L - 24))

FNeg(a) == [m |-> -a.m, e |-> a.e]

\* float * float.  The 48-bit product of the significands is formed in
\* 12-bit limbs as hi * 2^24 + lo and rounded to 24 bits.
FMul(a, b) ==
    LET s == Sgn(a.m) * Sgn(b.m)
        x == Abs(a.m)
        y == Abs(b.m)
        x1 == x \div 4096
        x0 == x % 4096
        y1 == y \div 4096
        y0 == y % 4096
        mid == x1 * y0 + x0 * y1
        losum == (mid % 4096) * 4096 + x0 * y0
        lo == losum % (2^24)
        hi == x1 * y1 + (mid \div 4096) + (losum \div (2^24))
        L == BitLen(hi)
    IN  IF hi = 0 THEN Canon(s * lo, a.e + b.e)
        ELSE LET t == hi * 2^(24 - L) + (lo \div (2^L))
                 r == lo % (2^L)
                 half == 2^(L - 1)
                 t2 == IF r > half \/ (r = half /\ t % 2 = 1) THEN t + 1 ELSE t
             IN  Canon(s * t2, a.e + b.e + L)

\* float + float.  When the exponents are close the sum is formed exactly and
\* rounded; otherwise the larger operand is widened to 27 bits and the smaller
\* one is shifted under it with a sticky bit.
FAdd(a, b) ==
    IF a.m = 0 THEN b
    ELSE IF b.m = 0 THEN a
    ELSE LET hiE == IF a.e >= b.e THEN a ELSE b
             loE == IF a.e >= b.e THEN b ELSE a
             d == hiE.e - loE.e
             LA == BitLen(Abs(hiE.m))
         IN  IF LA + d <= 30
             THEN FloatOf(hiE.m * 2^d + loE.m, loE.e)
             ELSE LET wide == Abs(hiE.m) * 2^(27 - LA)
                      E == hiE.e - (27 - LA)
                      sh == E - loE.e
                      bs == IF sh >= 24 THEN 0 ELSE Abs(loE.m) \div (2^sh)
                      sticky == IF sh >= 24 \/ Abs(loE.m) % (2^sh) # 0 THEN 1 ELSE 0
                      S == 2 * (Sgn(hiE.m) * wide + Sgn(loE.m) * bs)
                             + Sgn(loE.m) * sticky
                  IN  FloatOf(S, E - 1)

FSub(a, b) == FAdd(a, FNeg(b))

\* a <= b on floats: the rounded difference has the sign of the difference.
FLeq(a, b) == FSub(a, b).m <= 0

\* std::round on a float: to the nearest integer, halves away from zero.
StdRound(a) ==
    IF a.e >= 0 THEN a
    ELSE LET k == -a.e
         IN  IF k >= 25 THEN Canon(0, 0)
             ELSE Canon(Sgn(a.m) * ((Abs(a.m) + 2^(k - 1)) \div (2^k)), 0)

fmaxf(a, b) == IF FLeq(a, b) THEN b ELSE a

fminf(a, b) == IF FLeq(a, b) THEN a ELSE b

\* ------------------------------------------------------------------------
\* Inputs a caller may pass

\* Longest tensor of the enumerated inputs.
MaxLen == 1

\* Largest quant_delay of the enumerated inputs.
MaxDelay == 2

F(m, e) == Canon(m, e)

\* -0.5, 0.5, 26853014
XVals == {F(-1, -1), F(1, -1), F(26853014, 0)}

\* Longer tensors: those of the documented examples, [0.1, 0.4, 0.6, 0.9] (as
\* the floats nearest to these decimals) and [-1000, 0, 1000], and [2^25, 1].
ExampleX ==
    { <<F(13421773, -27), F(13421773, -25), F(5033165, -23), F(7549747, -23)>>,
      <<F(-1000, 0), F(0, 0), F(1000, 0)>>,
      <<F(1, 25), F(1, 0)>> }

SeqsUpTo(S, n) == UNION {[1..k -> S] : k \in 0..n}

XData == SeqsUpTo(XVals, MaxLen) \cup ExampleX

CudaFloat(d) == [is_cuda |-> TRUE, scalar_type |-> "Float", data |-> d]

XTensors ==
    {CudaFloat(d) : d \in XData}
        \cup {[is_cuda |-> FALSE, scalar_type |-> "Float", data |-> <<F(0, 0)>>],
              [is_cuda |-> TRUE, scalar_type |-> "Double", data |-> <<F(0, 0)>>]}

DYVals == {F(1, 1)}

DYData ==
    SeqsUpTo(DYVals, MaxLen)
        \cup { <<F(1, 0), F(-1, 0), F(1, 1)>>,
               <<F(1, 0), F(-1, 0), F(1, 1), F(3, 0)>>,
               <<F(-3, -1), F(1, -2)>> }

\* double scale = num * 2^exp: 0.5, 1.0, 3.0
Scales == {[num |-> 1, exp |-> -1], [num |-> 1, exp |-> 0], [num |-> 3, exp |-> 0]}

ZeroPoints == {-1, 0, 128}

NumBitsVals == {0, 1, 8, 24, 25, 31, 32, 33}

QuantDelays == {-1, 0, MaxDelay}

Iters == -1..(MaxDelay + 2)

\* What `1 << num_bits` yields when num_bits is the width of int, which the
\* language leaves undefined: the shift count taken modulo 32 (the result is
\* 1), or every bit shifted out (the result is 0).  A build does one or the
\* other; which one is unobserved until a call evaluates such a shift.
Builds == {"count_masked", "shifted_out"}

\* ------------------------------------------------------------------------
\* The kernels

IntMax == (2^30 - 1) * 2 + 1

IntMin == -IntMax - 1

\* 1 << n on int, n >= 0.
ShiftLeftInt32(n, b) ==
    IF n <= 30 THEN 2^n
    ELSE IF n = 31 THEN IntMin
    ELSE IF b = "count_masked" THEN 2^(n % 32) ELSE 0

\* a - 1 on int.  INT_MIN - 1 (from 1 << 31) overflows; the subtraction, and
\* the equivalent ~(-1 << n), leave INT_MAX in the register.
DecInt32(a) == IF a = IntMin THEN IntMax ELSE a - 1

\* const float quant_min = 0;
QuantMin == F(0, 0)

\* const float quant_max = (1 << num_bits) - 1;
QuantMax(nb, b) == FloatOf(DecInt32(ShiftLeftInt32(nb, b)), 0)

\* float inv_scale = 1.0f / scale;  the quotient 1 / (num * 2^exp), rounded
\* to float (30 quotient bits and a sticky bit decide the rounding).
InvScale(sc) ==
    LET q == (2^29) \div sc.num
        sticky == IF (2^29) % sc.num = 0 THEN 0 ELSE 1
    IN  FloatOf(2 * q + sticky, -29 - 1 - sc.exp)

\* int64_t zero_point converted to float.
ZeroPointF(zp) == FloatOf(zp, 0)

\* std::round(input_val * inv_scale + zero_point)
QuantizePoint(input_val, sc, zp) ==
    StdRound(FAdd(FMul(input_val, InvScale(sc)), ZeroPointF(zp)))

\* float t times double scale, stored into a float.
MulByScale(t, sc) == FloatOf(t.m * sc.num, t.e + sc.exp)

\* Dequantize without the zero point taken off again.
DequantizeNoZeroPoint(q, sc, zp, qmax) ==
    MulByScale(fminf(qmax, fmaxf(QuantMin, q)), sc)

\* (fminf(quant_max, fmaxf(quant_min, q)) - zero_point) * scale
Dequantize(q, sc, zp, qmax) ==
    MulByScale(FSub(fminf(qmax, fmaxf(QuantMin, q)), ZeroPointF(zp)), sc)

\* The forward lambda.
ForwardElem(input_val, sc, zp, qmax) ==
    Dequantize(QuantizePoint(input_val, sc, zp), sc, zp, qmax)

\* The backward lambda: float(Xq >= quant_min && Xq <= quant_max).
MaskElem(input_val, sc, zp, qmax) ==
    LET Xq == QuantizePoint(input_val, sc, zp)
    IN  IF FLeq(QuantMin, Xq) /\ FLeq(Xq, qmax) THEN F(1, 0) ELSE F(0, 0)

\* BadNumBits with the lower bound off by one.
BadNumBitsFromZero(nb) == nb > 32 \/ nb < 0

BadNumBits(nb) == nb > 32 \/ nb < 1

BadZeroPoint(zp) == zp < 0

BadQuantDelay(qd) == qd < 0

BadIter(qd, it) == qd # 0 /\ it < 0

\* EmptyInput with < for <=.
EmptyInputStrict(Xt) == Len(Xt.data) < 0

EmptyInput(Xt) == Len(Xt.data) <= 0

SizeMismatch(Xt, dYd) == Len(Xt.data) # Len(dYd)

\* InDelayWindow with < for <=.
InDelayWindowStrict(qd, it) == qd > 0 /\ it < qd

\* InDelayWindow without the test for a positive quant_delay.
InDelayWindowAnyDelay(qd, it) == it <= qd

InDelayWindow(qd, it) == qd > 0 /\ it <= qd

NotCudaFloat(Xt) == ~Xt.is_cuda \/ Xt.scalar_type # "Float"

\* A call that throws: nothing was allocated, nothing is returned.
Thrown(what) ==
    [status |-> what, allocated |-> FALSE, phase |-> "none",
     quant_max |-> F(0, 0), out |-> <<>>, mask |-> <<>>, wide_shift |-> FALSE]

\* A call that returns the tensor o; wide_shift: it shifted by the width of int.
Returned(ph, qmax, o, mk, ws) ==
    [status |-> "ok", allocated |-> TRUE, phase |-> ph,
     quant_max |-> qmax, out |-> o, mask |-> mk, wide_shift |-> ws]

\* FakeQuantizePerTensorAffineOp_forward::operator()
Forward(Xt, sc, zp, nb, qd, it, b) ==
    IF NotCudaFloat(Xt) THEN Thrown("c10_error")
    ELSE IF BadNumBits(nb) THEN Thrown("invalid_argument")
    ELSE IF BadZeroPoint(zp) THEN Thrown("invalid_argument")
    ELSE IF BadQuantDelay(qd) THEN Thrown("invalid_argument")
    ELSE IF BadIter(qd, it) THEN Thrown("invalid_argument")
    ELSE IF InDelayWindow(qd, it)
         THEN Returned("Disabled", F(0, 0), Xt.data, <<>>, FALSE)
    ELSE LET qmax == QuantMax(nb, b)
         IN  Returned("Active", qmax,
                      [i \in 1..Len(Xt.data) |-> ForwardElem(Xt.data[i], sc, zp, qmax)],
                      <<>>, nb >= 32)

\* FakeQuantizePerTensorAffineOp_backward::operator()
Backward(Xt, dYd, sc, zp, nb, qd, it, b) ==
    IF NotCudaFloat(Xt) THEN Thrown("c10_error")
    ELSE IF BadNumBits(nb) THEN Thrown("invalid_argument")
    ELSE IF BadZeroPoint(zp) THEN Thrown("invalid_argument")
    ELSE IF BadQuantDelay(qd) THEN Thrown("invalid_argument")
    ELSE IF EmptyInput(Xt) THEN Thrown("length_error")
    ELSE IF SizeMismatch(Xt, dYd) THEN Thrown("invalid_argument")
    ELSE IF BadIter(qd, it) THEN Thrown("invalid_argument")
    ELSE IF InDelayWindow(qd, it)
         THEN Returned("Disabled", F(0, 0), dYd, <<>>, FALSE)
    ELSE LET qmax == QuantMax(nb, b)
             mk == [i \in 1..Len(Xt.data) |-> MaskElem(Xt.data[i], sc, zp, qmax)]
         IN  Returned("Active", qmax,
                      [i \in 1..Len(dYd) |-> FMul(mk[i], dYd[i])], mk, nb >= 32)

\* ------------------------------------------------------------------------
\* State: the build, the latest call's arguments and its outcome.

\* build       what the build does with a shift by the width of int
\* call        the operator called last: "forward" or "backward"
\* chain       how the caller formed that call: "fresh", "requant" (forward of
\*             the last forward result), "paired" (backward for the last
\*             forward call), "train" (the same call at the next iter)
\* X .. iter   the arguments of that call
\* status      "ok", or the exception thrown
\* allocated   whether the call allocated its output tensor
\* phase       the branch a returning call took: "Disabled" (the delay window's
\*             copy) or "Active" (the kernel)
\* quant_max   the clamp bound an Active call computed
\* Y, dX, mask the tensors of the forward result, the backward result and the
\*             backward mask
\* prev_phase  the phase of the call before, in the same run
VARIABLES build, call, chain, X, dY, scale, zero_point, num_bits, quant_delay,
          iter, status, allocated, phase, quant_max, Y, dX, mask, prev_phase

vars == <<build, call, chain, X, dY, scale, zero_point, num_bits, quant_delay,
          iter, status, allocated, phase, quant_max, Y, dX, mask, prev_phase>>

Init ==
    /\ build = "unobserved"
    /\ call = "none"
    /\ chain = "none"
    /\ X = CudaFloat(<<>>)
    /\ dY = <<>>
    /\ scale = [num |-> 1, exp |-> 0]
    /\ zero_point = 0
    /\ num_bits = 8
    /\ quant_delay = 0
    /\ iter = 0
    /\ status = "none"
    /\ allocated = FALSE
    /\ phase = "none"
    /\ quant_max = F(0, 0)
    /\ Y = <<>>
    /\ dX = <<>>
    /\ mask = <<>>
    /\ prev_phase = "none"

\* The builds a call with this num_bits can tell apart: a call that shifts by
\* less than the width of int behaves the same on all of them.
BuildChoices(nb) == IF nb >= 32 /\ build = "unobserved" THEN Builds ELSE {build}

\* One call of the forward operator.
ForwardCall(Xt, sc, zp, nb, qd, it, ch) ==
    \E b \in BuildChoices(nb) : \E r \in {Forward(Xt, sc, zp, nb, qd, it, b)} :
        /\ call' = "forward"
        /\ chain' = ch
        /\ X' = Xt
        /\ dY' = <<>>
        /\ scale' = sc
        /\ zero_point' = zp
        /\ num_bits' = nb
        /\ quant_delay' = qd
        /\ iter' = it
        /\ status' = r.status
        /\ allocated' = r.allocated
        /\ phase' = r.phase
        /\ quant_max' = r.quant_max
        /\ Y' = r.out
        /\ dX' = <<>>
        /\ mask' = <<>>
        /\ build' = IF r.wide_shift THEN b ELSE build
        /\ prev_phase' = phase

\* One call of the backward operator; keepY keeps the forward result of the
\* same input beside it.
BackwardCall(Xt, dYd, sc, zp, nb, qd, it, ch, keepY) ==
    \E b \in BuildChoices(nb) : \E r \in {Backward(Xt, dYd, sc, zp, nb, qd, it, b)} :
        /\ call' = "backward"
        /\ chain' = ch
        /\ X' = Xt
        /\ dY' = dYd
        /\ scale' = sc
        /\ zero_point' = zp
        /\ num_bits' = nb
        /\ quant_delay' = qd
        /\ iter' = it
        /\ status' = r.status
        /\ allocated' = r.allocated
        /\ phase' = r.phase
        /\ quant_max' = r.quant_max
        /\ dX' = r.out
        /\ mask' = r.mask
        /\ Y' = IF keepY THEN Y ELSE <<>>
        /\ build' = IF r.wide_shift THEN b ELSE build
        /\ prev_phase' = phase

\* The first call of a run, with any arguments.
FreshForward ==
    /\ call = "none"
    /\ \E Xt \in XTensors, sc \in Scales, zp \in ZeroPoints, nb \in NumBitsVals,
          qd \in QuantDelays, it \in Iters :
         ForwardCall(Xt, sc, zp, nb, qd, it, "fresh")

FreshBackward ==
    /\ call = "none"
    /\ \E Xt \in XTensors, dYd \in DYData, sc \in Scales, zp \in ZeroPoints,
          nb \in NumBitsVals, qd \in QuantDelays, it \in Iters :
         /\ Abs(Len(dYd) - Len(Xt.data)) <= 1
         /\ BackwardCall(Xt, dYd, sc, zp, nb, qd, it, "fresh", FALSE)

\* forward applied to the tensor the last forward call returned, with the
\* same parameters.
Requantize ==
    /\ call = "forward"
    /\ status = "ok"
    /\ ForwardCall(CudaFloat(Y), scale, zero_point, num_bits, quant_delay, iter,
                   "requant")

\* backward for the input and parameters of the last forward call.
BackwardOfForward ==
    /\ call = "forward"
    /\ status = "ok"
    /\ \E dYd \in DYData :
         /\ Len(dYd) = Len(X.data)
         /\ BackwardCall(X, dYd, scale, zero_point, num_bits, quant_delay, iter,
                         "paired", TRUE)

\* The next step of a training run: the caller repeats the call with iter
\* increased by one and everything else as it was.
TrainStep ==
    /\ call \in {"forward", "backward"}
    /\ iter <= MaxDelay + 1
    /\ \/ /\ call = "forward"
          /\ ForwardCall(X, scale, zero_point, num_bits, quant_delay, iter + 1,
                         "train")
       \/ /\ call = "backward"
          /\ BackwardCall(X, dY, scale, zero_point, num_bits, quant_delay,
                          iter + 1, "train", FALSE)

Next ==
    \/ FreshForward
    \/ FreshBackward
    \/ Requantize
    \/ BackwardOfForward
    \/ TrainStep

Spec == Init /\ [][Next]_vars

\* ------------------------------------------------------------------------
\* Properties

\* The call was made on a device-resident float32 tensor.
OnCudaFloat == call # "none" /\ X.is_cuda /\ X.scalar_type = "Float"

ScalarsValid == num_bits >= 1 /\ num_bits <= 32 /\ zero_point >= 0 /\ quant_delay >= 0

IterValid == quant_delay = 0 \/ iter >= 0

TensorsValid == call = "backward" => (Len(X.data) > 0 /\ Len(X.data) = Len(dY))

PassesValidation == OnCudaFloat /\ ScalarsValid /\ IterValid /\ TensorsValid

InWindow == quant_delay > 0 /\ iter <= quant_delay

Zero == F(0, 0)

\* The float nearest to 2^nb - 1: 2^nb - 1 itself up to 24 bits, 2^nb beyond
\* (a run of more than 24 one-bits rounds up).
Pow2Minus1F(nb) == IF nb <= 24 THEN F(2^nb - 1, 0) ELSE F(1, nb)

\* q = round(x * (1/scale) + zero_point), halves away from zero.
ClaimedQ(x) == StdRound(FAdd(FMul(x, InvScale(scale)), FloatOf(zero_point, 0)))

\* (v - zero_point) * scale
Rescaled(v) == MulByScale(FSub(v, FloatOf(zero_point, 0)), scale)

\* (min(quant_max, max(quant_min, q)) - zero_point) * scale with quant_min = 0
\* and quant_max = 2^num_bits - 1.
ClaimedY(x) == Rescaled(fminf(Pow2Minus1F(num_bits), fmaxf(Zero, ClaimedQ(x))))

\* 1 where quant_min <= q <= quant_max, with quant_max = 2^num_bits - 1.
ClaimedMask(x) ==
    IF FLeq(Zero, ClaimedQ(x)) /\ FLeq(ClaimedQ(x), Pow2Minus1F(num_bits))
    THEN F(1, 0) ELSE Zero

TenthsX == <<F(13421773, -27), F(13421773, -25), F(5033165, -23), F(7549747, -23)>>

ThousandsX == <<F(-1000, 0), F(0, 0), F(1000, 0)>>

UnitScale == [num |-> 1, exp |-> 0]

\* C1: a forward call that passes validation outside the delay window returns
\* y[i] = (min(quant_max, max(quant_min, q)) - zero_point) * scale for every i,
\* q = round(x[i] * (1/scale) + zero_point), quant_min = 0 and
\* quant_max = 2^num_bits - 1, for every num_bits in 1..32; and
\* [0.1, 0.4, 0.6, 0.9] with scale 1, zero_point 0, num_bits 8 gives [0, 0, 1, 1].
C1_ForwardFormula ==
    (call = "forward" /\ PassesValidation /\ ~InWindow) =>
        /\ status = "ok"
        /\ Len(Y) = Len(X.data)
        /\ \A i \in 1..Len(Y) : Y[i] = ClaimedY(X.data[i])
        /\ (X.data = TenthsX /\ scale = UnitScale /\ zero_point = 0 /\ num_bits = 8)
              => Y = <<F(0, 0), F(0, 0), F(1, 0), F(1, 0)>>

\* C2: when quant_delay > 0 and 0 <= iter <= quant_delay a valid forward call
\* returns X element for element and a valid backward call returns dY element
\* for element; at iter = quant_delay + 1 the kernels run instead.
C2_DelayWindow ==
    /\ (PassesValidation /\ quant_delay > 0 /\ 0 <= iter /\ iter <= quant_delay) =>
          /\ status = "ok"
          /\ call = "forward" => Y = X.data
          /\ call = "backward" => dX = dY
    /\ (PassesValidation /\ quant_delay > 0 /\ iter = quant_delay + 1) =>
          /\ status = "ok"
          /\ phase = "Active"
          /\ call = "forward" =>
                Y = [i \in 1..Len(X.data) |->
                        ForwardElem(X.data[i], scale, zero_point, quant_max)]
          /\ call = "backward" =>
                /\ mask = [i \in 1..Len(X.data) |->
                              MaskElem(X.data[i], scale, zero_point, quant_max)]
                /\ dX = [i \in 1..Len(dY) |-> FMul(mask[i], dY[i])]

\* A forward call at iter = quant_delay that returned its input, which the
\* kernel would have changed.
C2_Witness ==
    /\ call = "forward" /\ status = "ok"
    /\ quant_delay > 0 /\ iter = quant_delay
    /\ Len(Y) > 0 /\ Y = X.data
    /\ Y[1] # ClaimedY(X.data[1])

\* C3: on a device-resident float32 tensor, forward and backward throw
\* invalid_argument, before allocating or computing anything, when
\* num_bits < 1 or num_bits > 32, when zero_point < 0, when quant_delay < 0, and
\* when quant_delay != 0 and iter < 0 with everything else valid.
C3_InvalidArgument ==
    (OnCudaFloat /\ (~ScalarsValid \/ (~IterValid /\ TensorsValid))) =>
        /\ status = "invalid_argument"
        /\ ~allocated
        /\ Y = <<>> /\ dX = <<>> /\ mask = <<>>

\* A backward call whose only fault is a negative iter, rejected.
C3_Witness ==
    /\ call = "backward" /\ OnCudaFloat /\ ScalarsValid /\ TensorsValid
    /\ quant_delay > 0 /\ iter < 0
    /\ status = "invalid_argument" /\ ~allocated

\* C4 as stated: backward throws length_error if X has no elements and
\* invalid_argument if X and dY differ in element count; forward checks neither
\* and accepts an empty X.  (The scalar parameters are taken to be valid.)
C4_Original ==
    /\ (call = "backward" /\ OnCudaFloat /\ ScalarsValid) =>
          /\ Len(X.data) = 0 => status = "length_error"
          /\ Len(X.data) # Len(dY) => status = "invalid_argument"
    /\ (call = "forward" /\ OnCudaFloat /\ ScalarsValid /\ IterValid) => status = "ok"

\* C4 amended: backward throws length_error if X has no elements, whatever the
\* element count of dY, and invalid_argument if X has elements and dY has
\* another count; forward checks neither and accepts an empty X.  (The scalar
\* parameters are taken to be valid, as above.)
C4_Amended ==
    /\ (call = "backward" /\ OnCudaFloat /\ ScalarsValid) =>
          /\ Len(X.data) = 0 => status = "length_error"
          /\ (Len(X.data) > 0 /\ Len(X.data) # Len(dY)) => status = "invalid_argument"
    /\ (call = "forward" /\ OnCudaFloat /\ ScalarsValid /\ IterValid) => status = "ok"

\* A backward call with an empty X and a dY of one element, rejected with
\* length_error.
C4_Witness ==
    /\ call = "backward" /\ OnCudaFloat /\ ScalarsValid /\ IterValid
    /\ Len(X.data) = 0 /\ Len(dY) = 1
    /\ status = "length_error"

\* C5: a backward call that passes validation outside the delay window returns
\* dX[i] = dY[i] if quant_min <= q <= quant_max and 0 otherwise, with
\* q = round(x[i] * (1/scale) + zero_point), quant_min = 0 and
\* quant_max = 2^num_bits - 1; [-1000, 0, 1000] with scale 1, zero_point 128,
\* num_bits 8 gives the mask [0, 1, 0].
C5_BackwardFormula ==
    (call = "backward" /\ PassesValidation /\ ~InWindow) =>
        /\ status = "ok"
        /\ Len(dX) = Len(dY)
        /\ \A i \in 1..Len(dX) : dX[i] = FMul(ClaimedMask(X.data[i]), dY[i])
        /\ (X.data = ThousandsX /\ scale = UnitScale /\ zero_point = 128 /\ num_bits = 8)
              => mask = <<F(0, 0), F(1, 0), F(0, 0)>>

\* The integer y / 2^exp of an output y = k * num * 2^exp (rounded to float).
ScaledInt(y) == IF y.m = 0 THEN 0 ELSE y.m * 2^(y.e - scale.exp)

\* a <= b for a > 0 and b > 0 given exactly as m * 2^e: the higher leading bit
\* is the larger; with equal leading bits the significands align.
ExactLeq(a, b) ==
    LET pa == BitLen(a.m) + a.e
        pb == BitLen(b.m) + b.e
        mn == IF a.e <= b.e THEN a.e ELSE b.e
    IN  IF pa # pb THEN pa < pb
        ELSE a.m * 2^(a.e - mn) <= b.m * 2^(b.e - mn)

\* C6: with quantization active every forward output lies in the interval
\* [(0 - zero_point) * scale, (2^num_bits - 1 - zero_point) * scale].  Divided
\* by 2^exp, scale = num * 2^exp: -zero_point * num <= k and
\* k + (zero_point + 1) * num <= num * 2^num_bits.
C6_OutputRange ==
    (call = "forward" /\ status = "ok" /\ phase = "Active") =>
        \A i \in 1..Len(Y) :
            LET k == ScaledInt(Y[i])
                up == k + (zero_point + 1) * scale.num
            IN  /\ -zero_point * scale.num <= k
                /\ up <= 0 \/ ExactLeq([m |-> up, e |-> 0],
                                       [m |-> scale.num, e |-> num_bits])

\* C7: for every accepted num_bits, 31 and 32 included, the clamp bound the
\* kernels use is 2^num_bits - 1 (as a float), and quant_min is 0.
C7_QuantMax ==
    (status = "ok" /\ phase = "Active") =>
        /\ quant_max = Pow2Minus1F(num_bits)
        /\ QuantMin = Zero

\* C8 as stated: forward applied to the result of an active forward call, with
\* the same parameters, returns that result unchanged, for every X.
C8_Original ==
    (chain = "requant" /\ status = "ok" /\ phase = "Active") => Y = X.data

\* C8 amended: the same, for a scale that is a power of two.
C8_Amended ==
    (chain = "requant" /\ status = "ok" /\ phase = "Active" /\ scale.num = 1)
        => Y = X.data

\* A requantization at a power-of-two scale that returned its nonzero input.
C8_Witness ==
    /\ chain = "requant" /\ status = "ok" /\ phase = "Active" /\ scale.num = 1
    /\ Len(Y) > 0 /\ Y = X.data /\ Y[1] # Zero

\* C9 as stated: a call (of a run that counts iter from 0) is Disabled when
\* iter <= quant_delay and Active when iter > quant_delay; over a run with
\* quant_delay fixed and iter increasing by one per call, a call after an
\* Active call is Active.
C9_Original ==
    /\ (status = "ok" /\ iter >= 0) =>
          /\ phase = "Disabled" <=> iter <= quant_delay
          /\ phase = "Active" <=> iter > quant_delay
    /\ (chain = "train" /\ status = "ok" /\ prev_phase = "Active") => phase = "Active"

\* C9 amended: a call is Disabled when quant_delay > 0 and iter <= quant_delay
\* and Active otherwise; the rest as stated.
C9_Amended ==
    /\ status = "ok" =>
          /\ phase = "Disabled" <=> (quant_delay > 0 /\ iter <= quant_delay)
          /\ phase = "Active" <=> ~(quant_delay > 0 /\ iter <= quant_delay)
    /\ (chain = "train" /\ prev_phase = "Active") =>
          (status = "ok" /\ phase = "Active")

\* The second Active call of a training run that began inside the delay window.
C9_Witness ==
    /\ chain = "train" /\ quant_delay > 0 /\ iter = quant_delay + 2
    /\ prev_phase = "Active" /\ phase = "Active"

\* C10: with quantization active, backward passes the gradient at i
\* (dX[i] = dY[i]) exactly when forward left element i unclamped, that is when
\* y[i] = (round(x[i] * (1/scale) + zero_point) - zero_point) * scale, and
\* zeroes it (dX[i] = 0) exactly when forward clamped it.
C10_SaturationAgrees ==
    (chain = "paired" /\ status = "ok" /\ phase = "Active") =>
        \A i \in 1..Len(dX) :
            LET unclamped == Y[i] = Rescaled(ClaimedQ(X.data[i]))
            IN  /\ dX[i] = dY[i] <=> unclamped
                /\ dX[i] = Zero <=> ~unclamped
====
